---- MODULE Spec2Model ----
(***************************************************************************)
(* Model of ScientificReviewer.py: the reviewer runners                    *)
(* (review_scientific_paper, review_proposal, analyze_poster), the        *)
(* response normalisation (extract_content), the overall-rating            *)
(* aggregation (calculate_average_rating), the decision mapping            *)
(* (get_editorial_decision) and the part of scientific_paper_review_page   *)
(* that reports the aggregate.                                             *)
(*                                                                         *)
(* Text is a sequence of chunks (strings).  The chunks "Rating:", "/",     *)
(* the decimal digits, the signs and the whitespace chunks are the         *)
(* characters the rating extraction looks at; every other chunk is a run   *)
(* of ordinary characters that holds none of them as a whole token and is  *)
(* not blank.  "Rating:" has no proper border and no chunk ends with one   *)
(* of its prefixes, so splitting the chunk sequence at the chunk           *)
(* "Rating:" is str.split("Rating:") of the concatenated string.           *)
(***************************************************************************)
EXTENDS Integers, Sequences, FiniteSets, TLC

VARIABLES runner, expertises, pc, idx, review_log, client, invoked,
          k, ratings, warnings, average_rating, shown, decision, analysis

vars == <<runner, expertises, pc, idx, review_log, client, invoked,
          k, ratings, warnings, average_rating, shown, decision, analysis>>

(* ---------------------------- bounds ---------------------------------- *)
MaxAgents == 2
MaxNeg == 3
MaxSum == 30
MaxDen == 3

(* ---------------------------- text chunks ----------------------------- *)
RatingTag == "Rating:"
Slash == "/"
Whitespace == {" ", "\n"}
Digits == {"0", "1", "2", "3", "4", "5", "6", "7", "8", "9"}
Signs == {"+", "-"}

DigitVal(d) ==
  CASE d = "0" -> 0 [] d = "1" -> 1 [] d = "2" -> 2 [] d = "3" -> 3
    [] d = "4" -> 4 [] d = "5" -> 5 [] d = "6" -> 6 [] d = "7" -> 7
    [] d = "8" -> 8 [] d = "9" -> 9

(* Persona labels typed into st.text_input: the default label and a label *)
(* that itself holds "Rating:", a digit and "/".                          *)
DefaultLabel == <<"Scientific Expert 1">>
RatingLabel == <<RatingTag, " ", "5", Slash>>
Labels == {DefaultLabel, RatingLabel}

(* Review texts a model may return.                                       *)
Text8 == <<"Overall ", RatingTag, " ", "8", Slash, "9">>
Text4 == <<RatingTag, " ", "4", Slash, "9">>
Text0 == <<RatingTag, " ", "0", Slash, "9">>
TextNoRating == <<"no ratings here">>
TextBare == <<"7", Slash, "9">>
TextTwo == <<RatingTag, " ", "2", Slash, "9", "\n", RatingTag, " ", "7", Slash, "9">>
TextWord == <<RatingTag, " ", "good", Slash, "9">>
ReviewTexts == {Text8, Text4, Text0, TextNoRating, TextBare, TextTwo, TextWord}

ErrorTexts == {"quota exceeded"}

(* What agent.invoke can do: return a str, an object with .content, a     *)
(* non-empty list whose first item has .content, a non-empty list whose   *)
(* first item has none, an empty list, some other object, or raise.       *)
Resp(shape, text, err) == [shape |-> shape, text |-> text, err |-> err]
Responses ==
  {Resp("str", t, "") : t \in ReviewTexts}
    \cup {Resp("obj", Text4, ""), Resp("list", Text8, "")}
    \cup {Resp("list_nocontent", <<>>, ""), Resp("emptylist", <<>>, ""),
          Resp("other", <<>>, "")}
    \cup {Resp("raise", <<>>, e) : e \in ErrorTexts}

(* ---------------------------- extract_content ------------------------- *)
(* extract_content without its list branch *)
extract_content_NoListBranch(response, default_value) ==
  IF response.shape = "str" THEN [raised |-> FALSE, text |-> response.text]
  ELSE IF response.shape = "obj" THEN [raised |-> FALSE, text |-> response.text]
  ELSE [raised |-> FALSE, text |-> default_value]

extract_content(response, default_value) ==
  IF response.shape = "str" THEN [raised |-> FALSE, text |-> response.text]
  ELSE IF response.shape = "obj" THEN [raised |-> FALSE, text |-> response.text]
  ELSE IF response.shape = "list" THEN [raised |-> FALSE, text |-> response.text]
  ELSE IF response.shape = "list_nocontent" THEN [raised |-> TRUE, text |-> <<>>]
  ELSE [raised |-> FALSE, text |-> default_value]

(* ---------------------------- reviewer runners ------------------------ *)
PaperDefault(expertise) ==
  <<"[Error: Unable to extract response for Reviewer ">> \o expertise \o <<"]">>

PaperIssue(expertise, err) ==
  <<"[Error: Issue with Reviewer ">> \o expertise \o <<"]">>

PaperReviewText(expertise, response) ==
  IF response.shape = "raise" THEN PaperIssue(expertise, response.err)
  ELSE LET r == extract_content(response, PaperDefault(expertise))
       IN  IF r.raised THEN PaperIssue(expertise, "'str' object has no attribute 'content'")
           ELSE r.text

(* the except branch skips the append (continue) *)
PaperIteration_DropOnError(log, expertise, response) ==
  IF response.shape = "raise" THEN log
  ELSE Append(log, [reviewer |-> expertise, review |-> PaperReviewText(expertise, response)])

PaperIteration(log, expertise, response) ==
  Append(log, [reviewer |-> expertise, review |-> PaperReviewText(expertise, response)])

ProposalDefault == <<"[Error: Unable to extract response]">>

ProposalIssue(err) == <<"[Error: Issue with review]">>

ProposalReviewText(response) ==
  IF response.shape = "raise" THEN ProposalIssue(response.err)
  ELSE LET r == extract_content(response, ProposalDefault)
       IN  IF r.raised THEN ProposalIssue("'str' object has no attribute 'content'")
           ELSE r.text

ProposalIteration(log, expertise, response) ==
  Append(log, [review |-> ProposalReviewText(response), expertise |-> expertise])

PosterDefault == <<"[Error: Unable to extract response for poster analysis]">>

PosterIssue(err) == <<"[Error: Issue with poster analysis: ", err, "]">>

analyze_poster(response) ==
  IF response.shape = "raise" THEN PosterIssue(response.err)
  ELSE LET r == extract_content(response, PosterDefault)
       IN  IF r.raised THEN PosterIssue("'str' object has no attribute 'content'")
           ELSE r.text

(* a failed call is retried once *)
InvokeOnce_RetryOnError(calls, i, response) ==
  [calls EXCEPT ![i] = IF response.shape = "raise" THEN @ + 2 ELSE @ + 1]

(* One agent.invoke call per loop iteration, inside the try, no retry.    *)
InvokeOnce(calls, i, response) == [calls EXCEPT ![i] = @ + 1]

(* The for loop over zip(agents, expertises) ends when zip is exhausted.  *)
(* the return statement sits inside the loop body *)
ZipExhausted_ReturnInLoop(i, exps) == i >= 1 \/ i = Len(exps)

ZipExhausted(i, exps) == i = Len(exps)

(* ---------------------------- rating extraction ----------------------- *)
RECURSIVE LastIndexOf(_, _)
LastIndexOf(text, c) ==
  IF text = <<>> THEN 0
  ELSE IF text[Len(text)] = c THEN Len(text)
  ELSE LastIndexOf(SubSeq(text, 1, Len(text) - 1), c)

RECURSIVE FirstIndexOf(_, _, _)
FirstIndexOf(text, c, from) ==
  IF from > Len(text) THEN 0
  ELSE IF text[from] = c THEN from
  ELSE FirstIndexOf(text, c, from + 1)

(* text.split("Rating:")[-1] *)
AfterLastRating(text) == SubSeq(text, LastIndexOf(text, RatingTag) + 1, Len(text))

(* piece.split("/")[0] *)
BeforeFirstSlash(piece) ==
  LET p == FirstIndexOf(piece, Slash, 1)
  IN  IF p = 0 THEN piece ELSE SubSeq(piece, 1, p - 1)

RECURSIVE Strip(_)
Strip(t) ==
  IF t = <<>> THEN t
  ELSE IF t[1] \in Whitespace THEN Strip(Tail(t))
  ELSE IF t[Len(t)] \in Whitespace THEN Strip(SubSeq(t, 1, Len(t) - 1))
  ELSE t

RECURSIVE DecVal(_)
DecVal(ds) ==
  IF ds = <<>> THEN 0
  ELSE 10 * DecVal(SubSeq(ds, 1, Len(ds) - 1)) + DigitVal(ds[Len(ds)])

AllDigits(ds) == ds # <<>> /\ \A j \in 1..Len(ds) : ds[j] \in Digits

(* int(s): optional sign, then decimal digits; anything else ValueError.  *)
IntOf(s) ==
  LET t == Strip(s)
      signed == t # <<>> /\ t[1] \in Signs
      ds == IF signed THEN Tail(t) ELSE t
  IN  IF AllDigits(ds)
      THEN [ok |-> TRUE, val |-> IF signed /\ t[1] = "-" THEN 0 - DecVal(ds) ELSE DecVal(ds)]
      ELSE [ok |-> FALSE, val |-> 0]

(* int(review_text.split("Rating:")[-1].split("/")[0].strip()) *)
ParseRating(review_text) == IntOf(Strip(BeforeFirstSlash(AfterLastRating(review_text))))

(* ---------------------------- aggregation ----------------------------- *)
(* an unparsable rating is counted as zero *)
CalcIteration_ZeroOnError(rs, ws, review) ==
  LET r == ParseRating(review.review)
  IN  IF r.ok THEN [ratings |-> Append(rs, r.val), warnings |-> ws]
      ELSE [ratings |-> Append(rs, 0), warnings |-> Append(ws, review.reviewer)]

(* One iteration of the loop of calculate_average_rating.                 *)
CalcIteration(rs, ws, review) ==
  LET r == ParseRating(review.review)
  IN  IF r.ok THEN [ratings |-> Append(rs, r.val), warnings |-> ws]
      ELSE [ratings |-> rs, warnings |-> Append(ws, review.reviewer)]

RECURSIVE SumSeq(_)
SumSeq(s) == IF s = <<>> THEN 0 ELSE s[1] + SumSeq(Tail(s))

(* A mean is kept as the exact quotient num/den; None is none = TRUE.     *)
(* sum(ratings) / len(ratings) is the correctly rounded quotient, so its  *)
(* comparisons with 0, 3, 5 and 7 are those of the exact quotient.        *)
NoneRating == [none |-> TRUE, num |-> 0, den |-> 1]

Mean(rs) ==
  IF rs # <<>> THEN [none |-> FALSE, num |-> SumSeq(rs), den |-> Len(rs)]
  ELSE NoneRating

(* Truth value of `if average_rating:` (None and 0.0 are false).          *)
Truthy(a) == ~a.none /\ a.num # 0

(* the Accept band excludes its lower edge *)
get_editorial_decision_StrictAccept(a) ==
  IF a.none THEN "Unable to determine"
  ELSE IF a.num > 7 * a.den THEN "Accept"
  ELSE IF 5 * a.den <= a.num /\ a.num < 7 * a.den THEN "Minor Revision"
  ELSE IF 3 * a.den <= a.num /\ a.num < 5 * a.den THEN "Major Revision"
  ELSE "Reject"

get_editorial_decision(a) ==
  IF a.none THEN "Unable to determine"
  ELSE IF a.num >= 7 * a.den THEN "Accept"
  ELSE IF 5 * a.den <= a.num /\ a.num < 7 * a.den THEN "Minor Revision"
  ELSE IF 3 * a.den <= a.num /\ a.num < 5 * a.den THEN "Major Revision"
  ELSE "Reject"

(* ---------------------------- state machine --------------------------- *)
(* The runners are functions of their argument lists: the pages pass 1..5 *)
(* personas, a direct call may pass none.                                *)
LabelLists == UNION {[1..n -> Labels] : n \in 0..MaxAgents}

Zeros(n) == [j \in 1..n |-> 0]

Init ==
  /\ runner = "none"
  /\ expertises = <<>>
  /\ pc = "idle"
  /\ idx = 0
  /\ review_log = <<>>
  /\ client = <<>>
  /\ invoked = <<>>
  /\ k = 0
  /\ ratings = <<>>
  /\ warnings = <<>>
  /\ average_rating = NoneRating
  /\ shown = "none"
  /\ decision = ""
  /\ analysis = <<>>

(* review_scientific_paper(content, agents, expertises, prompt) is called *)
StartPaperReview(exps) ==
  /\ pc = "idle"
  /\ runner' = "paper"
  /\ expertises' = exps
  /\ invoked' = Zeros(Len(exps))
  /\ pc' = "reviewing"
  /\ UNCHANGED <<idx, review_log, client, k, ratings, warnings,
                 average_rating, shown, decision, analysis>>

(* review_proposal(content, agents, expertises, review_type, prompt) is called *)
StartProposalReview(exps) ==
  /\ pc = "idle"
  /\ runner' = "grant"
  /\ expertises' = exps
  /\ invoked' = Zeros(Len(exps))
  /\ pc' = "reviewing"
  /\ UNCHANGED <<idx, review_log, client, k, ratings, warnings,
                 average_rating, shown, decision, analysis>>

(* One iteration of the loop of review_scientific_paper *)
ReviewPaperStep(response) ==
  /\ pc = "reviewing"
  /\ runner = "paper"
  /\ idx < Len(expertises)
  /\ idx' = idx + 1
  /\ client' = Append(client, response)
  /\ invoked' = InvokeOnce(invoked, idx + 1, response)
  /\ review_log' = PaperIteration(review_log, expertises[idx + 1], response)
  /\ UNCHANGED <<runner, expertises, pc, k, ratings, warnings,
                 average_rating, shown, decision, analysis>>

(* One iteration of the loop of review_proposal *)
ReviewProposalStep(response) ==
  /\ pc = "reviewing"
  /\ runner = "grant"
  /\ idx < Len(expertises)
  /\ idx' = idx + 1
  /\ client' = Append(client, response)
  /\ invoked' = InvokeOnce(invoked, idx + 1, response)
  /\ review_log' = ProposalIteration(review_log, expertises[idx + 1], response)
  /\ UNCHANGED <<runner, expertises, pc, k, ratings, warnings,
                 average_rating, shown, decision, analysis>>

(* review_scientific_paper returns; the page writes the reviews and calls *)
(* calculate_average_rating(review_log)                                   *)
PaperReviewReturn ==
  /\ pc = "reviewing"
  /\ runner = "paper"
  /\ ZipExhausted(idx, expertises)
  /\ pc' = "calc"
  /\ k' = 0
  /\ ratings' = <<>>
  /\ UNCHANGED <<runner, expertises, idx, review_log, client, invoked,
                 warnings, average_rating, shown, decision, analysis>>

(* review_proposal returns; the page writes the reviews *)
ProposalReviewReturn ==
  /\ pc = "reviewing"
  /\ runner = "grant"
  /\ ZipExhausted(idx, expertises)
  /\ pc' = "done"
  /\ UNCHANGED <<runner, expertises, idx, review_log, client, invoked,
                 k, ratings, warnings, average_rating, shown, decision, analysis>>

(* One iteration of the loop of calculate_average_rating *)
CalcStep ==
  /\ pc = "calc"
  /\ k < Len(review_log)
  /\ LET r == CalcIteration(ratings, warnings, review_log[k + 1])
     IN  /\ ratings' = r.ratings
         /\ warnings' = r.warnings
  /\ k' = k + 1
  /\ UNCHANGED <<runner, expertises, pc, idx, review_log, client, invoked,
                 average_rating, shown, decision, analysis>>

(* calculate_average_rating returns the mean or None *)
CalcReturn ==
  /\ pc = "calc"
  /\ k = Len(review_log)
  /\ average_rating' = Mean(ratings)
  /\ pc' = "report"
  /\ UNCHANGED <<runner, expertises, idx, review_log, client, invoked,
                 k, ratings, warnings, shown, decision, analysis>>

(* The page reports the average and the decision, or that it is unable to *)
Report ==
  /\ pc = "report"
  /\ IF Truthy(average_rating)
     THEN /\ shown' = "average"
          /\ decision' = get_editorial_decision(average_rating)
     ELSE /\ shown' = "unable"
          /\ UNCHANGED decision
  /\ pc' = "done"
  /\ UNCHANGED <<runner, expertises, idx, review_log, client, invoked,
                 k, ratings, warnings, average_rating, analysis>>

(* scientific_poster_review_page: one agent, one call of analyze_poster *)
AnalyzePoster(response) ==
  /\ pc = "idle"
  /\ runner' = "poster"
  /\ client' = <<response>>
  /\ invoked' = InvokeOnce(Zeros(1), 1, response)
  /\ analysis' = analyze_poster(response)
  /\ pc' = "done"
  /\ UNCHANGED <<expertises, idx, review_log, k, ratings, warnings,
                 average_rating, shown, decision>>

Next ==
  \/ \E exps \in LabelLists : StartPaperReview(exps)
  \/ \E exps \in LabelLists : StartProposalReview(exps)
  \/ \E response \in Responses : ReviewPaperStep(response)
  \/ \E response \in Responses : ReviewProposalStep(response)
  \/ PaperReviewReturn
  \/ ProposalReviewReturn
  \/ CalcStep
  \/ CalcReturn
  \/ Report
  \/ \E response \in Responses : AnalyzePoster(response)

Spec == Init /\ [][Next]_vars

(* ------------- get_editorial_decision as a pure function -------------- *)
Means ==
  {NoneRating} \cup
  {[none |-> FALSE, num |-> n, den |-> d] : n \in (0 - MaxNeg)..MaxSum, d \in 1..MaxDen}

InitDecision ==
  /\ runner = "none"
  /\ expertises = <<>>
  /\ pc = "decision_call"
  /\ idx = 0
  /\ review_log = <<>>
  /\ client = <<>>
  /\ invoked = <<>>
  /\ k = 0
  /\ ratings = <<>>
  /\ warnings = <<>>
  /\ average_rating \in Means
  /\ shown = "none"
  /\ decision = ""
  /\ analysis = <<>>

DecisionCall ==
  /\ pc = "decision_call"
  /\ decision' = get_editorial_decision(average_rating)
  /\ pc' = "decision_ret"
  /\ UNCHANGED <<runner, expertises, idx, review_log, client, invoked,
                 k, ratings, warnings, average_rating, shown, analysis>>

NextDecision == DecisionCall

SpecDecision == InitDecision /\ [][NextDecision]_vars


(* ============================ properties ============================== *)
ListRunner == runner \in {"paper", "grant"}

Returned == pc \notin {"idle", "reviewing"}

EntryLabel(e) == IF runner = "paper" THEN e.reviewer ELSE e.expertise

(* C1: review_scientific_paper and review_proposal build a log with one   *)
(* entry per persona consumed so far, the i-th entry carrying the i-th    *)
(* persona label, and on return the log has exactly N entries, whatever   *)
(* the client calls returned or raised.                                   *)
C1_LogMatchesPersonas ==
  ListRunner =>
    /\ Len(review_log) = idx
    /\ Len(client) = idx
    /\ \A j \in 1..Len(review_log) : EntryLabel(review_log[j]) = expertises[j]
    /\ Returned => Len(review_log) = Len(expertises)

C1_Witness ==
  /\ ListRunner
  /\ Returned
  /\ Len(review_log) = 2
  /\ expertises[1] # expertises[2]
  /\ client[2].shape = "raise"
  /\ client[1].shape = "str"

StepFailed(response) ==
  response.shape \in {"raise", "list_nocontent", "emptylist", "other"}

IsErrorPlaceholder(text) ==
  /\ text # <<>>
  /\ text[1] \in {"[Error: Unable to extract response for Reviewer ",
                  "[Error: Issue with Reviewer ",
                  "[Error: Unable to extract response]",
                  "[Error: Issue with review]"}

C3_OneCallPerAgent ==
  /\ ListRunner =>
       /\ \A j \in 1..Len(invoked) : invoked[j] = IF j <= idx THEN 1 ELSE 0
       /\ Returned => SumSeq(invoked) = Len(expertises)
  /\ runner = "poster" => invoked = <<1>>

C3_Witness ==
  /\ ListRunner
  /\ Returned
  /\ Len(invoked) = 2
  /\ client[1].shape = "raise"
  /\ client[2].shape = "raise"
  /\ invoked = <<1, 1>>

(* C4: get_editorial_decision maps a mean m to Reject when m < 3, Major   *)
(* Revision when 3 <= m < 5, Minor Revision when 5 <= m < 7, Accept when  *)
(* m >= 7 and Unable to determine when the mean is None.                  *)
C4_DecisionBands ==
  pc = "decision_ret" =>
    LET n == average_rating.num
        d == average_rating.den
    IN  /\ average_rating.none => decision = "Unable to determine"
        /\ (~average_rating.none /\ n < 3 * d) => decision = "Reject"
        /\ (~average_rating.none /\ 3 * d <= n /\ n < 5 * d) => decision = "Major Revision"
        /\ (~average_rating.none /\ 5 * d <= n /\ n < 7 * d) => decision = "Minor Revision"
        /\ (~average_rating.none /\ 7 * d <= n) => decision = "Accept"

C4_Witness ==
  /\ pc = "decision_ret"
  /\ ~average_rating.none
  /\ average_rating.num = 7 * average_rating.den
  /\ average_rating.den = 2
  /\ decision = "Accept"

Extracted == {j \in 1..Len(review_log) : ParseRating(review_log[j].review).ok}

RECURSIVE SumExtracted(_)
SumExtracted(S) ==
  IF S = {} THEN 0
  ELSE LET j == CHOOSE x \in S : TRUE
       IN  ParseRating(review_log[j].review).val + SumExtracted(S \ {j})

(* C5: calculate_average_rating returns the sum of the ratings extracted  *)
(* from the log divided by their number, and None when no rating could be *)
(* extracted (also for an empty log); a review without a parsable rating  *)
(* is in neither the sum nor the count.                                   *)
C5_MeanOfExtracted ==
  (runner = "paper" /\ pc \in {"report", "done"}) =>
    /\ average_rating.none <=> Extracted = {}
    /\ Extracted # {} =>
         /\ average_rating.num = SumExtracted(Extracted)
         /\ average_rating.den = Cardinality(Extracted)

C5_Witness ==
  /\ runner = "paper"
  /\ pc = "report"
  /\ Len(review_log) = 2
  /\ review_log[1].review = TextNoRating
  /\ review_log[2].review = Text8
  /\ average_rating = [none |-> FALSE, num |-> 8, den |-> 1]

Embeds(text, err) == \E j \in 1..Len(text) : text[j] = err

(* C6: whenever a reviewer's client call raises, the text recorded for    *)
(* that reviewer embeds the description of the error, in                  *)
(* review_scientific_paper, review_proposal and analyze_poster.           *)
C6_FailureReasonEmbedsError ==
  /\ ListRunner =>
       \A j \in 1..Len(review_log) :
         (j <= Len(client) /\ client[j].shape = "raise")
           => Embeds(review_log[j].review, client[j].err)
  /\ (runner = "poster" /\ client[1].shape = "raise")
       => Embeds(analysis, client[1].err)

(* "Rating:" followed by digits before a "/", at the last "Rating:" *)
HasRatingPattern(text) ==
  LET p == LastIndexOf(text, RatingTag)
      rest == SubSeq(text, p + 1, Len(text))
      s == FirstIndexOf(rest, Slash, 1)
  IN  /\ p > 0
      /\ s > 0
      /\ AllDigits(Strip(SubSeq(rest, 1, s - 1)))

(* C7: calculate_average_rating takes a rating exactly from the reviews   *)
(* whose text has a last "Rating:" followed by digits before a "/"; every *)
(* other review gives no rating and one warning, and the loop goes on.    *)
C7_RatingOnlyFromPattern ==
  (runner = "paper" /\ pc \in {"calc", "report", "done"}) =>
    /\ Len(ratings) =
         Cardinality({j \in 1..k : HasRatingPattern(review_log[j].review)})
    /\ Len(warnings) =
         Cardinality({j \in 1..k : ~HasRatingPattern(review_log[j].review)})

(* C8: in a paper review session the page reports the mean and the        *)
(* decision of the decision mapping whenever at least one rating was      *)
(* extracted, and takes the 'unable to calculate' branch only when none   *)
(* was.                                                                   *)
C8_MeanReportedWheneverExtracted ==
  (runner = "paper" /\ pc = "done") =>
    /\ shown = "unable" <=> ratings = <<>>
    /\ ratings # <<>> =>
         /\ shown = "average"
         /\ decision = get_editorial_decision(Mean(ratings))

(* C9: calculate_average_rating starts only after review_scientific_paper *)
(* has recorded an outcome for all N personas, and the aggregation leaves *)
(* the log as it found it.                                                *)
C9_AggregateAfterAllSettled ==
  /\ []((runner = "paper" /\ pc \in {"calc", "report", "done"})
          => (idx = Len(expertises) /\ Len(review_log) = Len(expertises)))
  /\ [][(pc \in {"calc", "report"}) => (review_log' = review_log)]_vars

C9_Witness ==
  /\ runner = "paper"
  /\ pc = "calc"
  /\ k = 1
  /\ Len(review_log) = 2
  /\ client[2].shape = "raise"

RECURSIVE RatingsOfSuccessful(_)
RatingsOfSuccessful(n) ==
  IF n = 0 THEN <<>>
  ELSE LET r == ParseRating(review_log[n].review)
       IN  IF client[n].shape # "raise" /\ r.ok
           THEN Append(RatingsOfSuccessful(n - 1), r.val)
           ELSE RatingsOfSuccessful(n - 1)

(* C10: the placeholder recorded for a failed client call never yields a  *)
(* rating, whatever the persona label: the ratings that enter the mean    *)
(* are those of the reviews whose client call did not raise.              *)
C10_FailedReviewerHasNoRating ==
  (runner = "paper" /\ pc \in {"report", "done"}) =>
    ratings = RatingsOfSuccessful(Len(review_log))

====
